---- MODULE Spec2Model ----
(***************************************************************************)
(* Model of the Registration Store, src/src/contexts/RegistrationContext.tsx *)
(* (RegistrationProvider): the React state `registrations` and `loading`,   *)
(* the identity supplied by useAuth, the Firestore collection               *)
(* 'registrations', and every asynchronous call of fetchRegistrations,      *)
(* registerForEvent and markAttendance between its await points.            *)
(*                                                                         *)
(* An async function runs synchronously up to an await; the database       *)
(* serves the request at some later moment (DbPut, DbPatch, DbRead) and     *)
(* the function resumes at a still later moment (ResumeRegister,            *)
(* ResumeMark, ResumeFetch).  Other calls may run in between.  A database   *)
(* call that fails changes nothing in the database, so its failure and the  *)
(* resumption in the catch block are one step.                              *)
(*                                                                         *)
(* Environment (not in src/): useAuth starts with loading = true and no     *)
(* user, resolves once, and afterwards only the user changes.  Firestore   *)
(* setDoc overwrites the whole document, updateDoc merges the named fields  *)
(* and fails on a missing document, getDocs returns the documents in        *)
(* ascending document-id order.  Any database call may fail.                *)
(***************************************************************************)
EXTENDS Naturals, Sequences, FiniteSets, Bags

VARIABLES
    user,           \* useAuth().user: NoUser or [id, role]
    authLoading,    \* useAuth().loading
    effectPending,  \* the useEffect of line 55 is scheduled (mount, or deps changed)
    registrations,  \* useState<Registration[]>
    loading,        \* useState(true)
    db,             \* Firestore collection 'registrations': doc id -> data
    tasks,          \* async calls suspended at an await (a bag)
    now,            \* the clock read by new Date()
    calls,          \* how many calls and identity changes have been made
    last            \* history: what the latest step did

vars == <<user, authLoading, effectPending, registrations, loading, db, tasks, now, calls, last>>

-----------------------------------------------------------------------------
(* Bounds *)

MaxCalls == 2       \* calls of the store's operations plus identity changes
MaxTime == 2        \* clock values 1..MaxTime

UserOrder == <<"u1", "u2">>
EventOrder == <<"e1">>

UserIds == {UserOrder[i] : i \in 1..Len(UserOrder)}
EventIds == {EventOrder[i] : i \in 1..Len(EventOrder)}

NoUser == [id |-> "none", role |-> "none"]

\* The identities the provider may supply.
Identities ==
    { [id |-> "u1", role |-> "student"],
      [id |-> "u2", role |-> "student"],
      [id |-> "u2", role |-> "organizer"],
      [id |-> "u1", role |-> "guest"] }

-----------------------------------------------------------------------------
(* Registration records *)

\* checkedInAt of a record that has no such field
Absent == 0

\* `${user.id}-${eventId}`
RegistrationId(uid, eventId) == uid \o "-" \o eventId

NewRegistration(uid, eventId, t) ==
    [ id |-> RegistrationId(uid, eventId),
      userId |-> uid,
      eventId |-> eventId,
      registrationDate |-> t,
      checkedIn |-> FALSE,
      checkedInAt |-> Absent ]

\* Mutant of CheckedIn: the flag is set and the timestamp is forgotten
CheckedInFlagOnly(reg, t) == [reg EXCEPT !.checkedIn = TRUE]

\* { ...reg, checkedIn: true, checkedInAt: checkedInAt }
CheckedIn(reg, t) == [reg EXCEPT !.checkedIn = TRUE, !.checkedInAt = t]

\* Document ids in ascending order
DocOrder ==
    [ i \in 1..(Len(UserOrder) * Len(EventOrder)) |->
        RegistrationId(UserOrder[((i - 1) \div Len(EventOrder)) + 1],
                       EventOrder[((i - 1) % Len(EventOrder)) + 1]) ]

DocIds == {DocOrder[i] : i \in 1..Len(DocOrder)}

\* Identifiers that contain the separator of the registration id
DashUserOrder == <<"a", "a-b">>
DashEventOrder == <<"b-c", "c">>

DashEventIds == {DashEventOrder[i] : i \in 1..Len(DashEventOrder)}

DashIdentities ==
    { [id |-> "a", role |-> "student"],
      [id |-> "a-b", role |-> "student"],
      [id |-> "a-b", role |-> "organizer"] }

\* Their document ids in ascending order, each id once
DashDocOrder ==
    << RegistrationId(DashUserOrder[2], DashEventOrder[1]),
       RegistrationId(DashUserOrder[2], DashEventOrder[2]),
       RegistrationId(DashUserOrder[1], DashEventOrder[2]) >>

DashDocIds == {DashDocOrder[i] : i \in 1..Len(DashDocOrder)}

\* All document ids in ascending order
KeyOrder == DashDocOrder \o DocOrder

-----------------------------------------------------------------------------
(* The document database *)

\* setDoc(doc(db, 'registrations', key), data): full overwrite
SetDoc(d, key, data) ==
    [k \in (DOMAIN d) \cup {key} |-> IF k = key THEN data ELSE d[k]]

\* updateDoc(ref, {checkedIn: true, checkedInAt}): merge of the two fields
UpdateDoc(d, key, t) ==
    [d EXCEPT ![key] = CheckedIn(d[key], t)]

\* Mutant of Visible: the student's where clause names the wrong field
VisibleWrongField(data, uid, role) ==
    \/ role = "organizer"
    \/ role = "student" /\ data.eventId = uid

\* The query of fetchRegistrations: the whole collection for an organizer,
\* where('userId', '==', user.id) for a student.
Visible(data, uid, role) ==
    \/ role = "organizer"
    \/ role = "student" /\ data.userId = uid

RECURSIVE DocsFrom(_, _, _, _)
DocsFrom(d, uid, role, i) ==
    IF i > Len(KeyOrder) THEN <<>>
    ELSE LET k == KeyOrder[i]
             rest == DocsFrom(d, uid, role, i + 1)
         IN IF k \in DOMAIN d /\ Visible(d[k], uid, role)
            THEN <<[d[k] EXCEPT !.id = k]>> \o rest
            ELSE rest

GetDocs(d, uid, role) == DocsFrom(d, uid, role, 1)

-----------------------------------------------------------------------------
(* Derived views *)

\* Mutant of Filter: nothing is filtered out
FilterNone(regs, uid) == regs

RECURSIVE Filter(_, _)
Filter(regs, uid) ==
    IF regs = <<>> THEN <<>>
    ELSE IF Head(regs).userId = uid
         THEN <<Head(regs)>> \o Filter(Tail(regs), uid)
         ELSE Filter(Tail(regs), uid)

userRegistrations ==
    IF user # NoUser THEN Filter(registrations, user.id) ELSE <<>>

isUserRegistered(eventId) ==
    IF user = NoUser THEN FALSE
    ELSE \E i \in 1..Len(userRegistrations) : userRegistrations[i].eventId = eventId

\* Mutant of allRegistrations: the role is not looked at
allRegistrationsAnyRole == registrations

allRegistrations ==
    IF user.role = "organizer" THEN registrations ELSE <<>>

-----------------------------------------------------------------------------
(* Async calls *)

Task(op, pc, uid, role, auth, eventId, rid, t) ==
    [ op |-> op, pc |-> pc, uid |-> uid, role |-> role, auth |-> auth,
      eventId |-> eventId, rid |-> rid, at |-> t, snap |-> <<>> ]

Add(bag, t) == bag (+) SetToBag({t})
Remove(bag, t) == bag (-) SetToBag({t})
Replace(bag, t, u) == Add(Remove(bag, t), u)
InFlight == BagToSet(tasks)

Did(act, op, rid, uid, role) ==
    [act |-> act, op |-> op, rid |-> rid, uid |-> uid, role |-> role]

DidTask(act, t) == Did(act, t.op, t.rid, t.uid, t.role)

Init ==
    /\ user = NoUser
    /\ authLoading = TRUE
    /\ effectPending = TRUE
    /\ registrations = <<>>
    /\ loading = TRUE
    /\ db = [k \in {} |-> NewRegistration("u1", "e1", 1)]
    /\ tasks = EmptyBag
    /\ now = 1
    /\ calls = 0
    /\ last = Did("init", "", "", "none", "none")

\* The values new Date() may return: the clock may have advanced since the
\* last reading.
Clock == {now} \cup (IF now < MaxTime THEN {now + 1} ELSE {})

\* useAuth finishes resolving the identity
AuthResolve(u) ==
    /\ authLoading
    /\ ~effectPending
    /\ user' = u
    /\ authLoading' = FALSE
    /\ effectPending' = TRUE
    /\ last' = Did("authResolve", "", "", u.id, u.role)
    /\ UNCHANGED <<registrations, loading, db, tasks, now, calls>>

\* Mutant of IdentityChange: the dependency list lacks user?.role
IdentityChangeIdOnly(u) ==
    /\ ~authLoading
    /\ ~effectPending
    /\ calls < MaxCalls
    /\ calls' = calls + 1
    /\ u # user
    /\ user' = u
    /\ effectPending' = (u.id # user.id)
    /\ last' = Did("identityChange", "", "", u.id, u.role)
    /\ UNCHANGED <<authLoading, registrations, loading, db, tasks, now>>

\* login, logout or role switch: user?.id or user?.role changes
IdentityChange(u) ==
    /\ ~authLoading
    /\ ~effectPending
    /\ calls < MaxCalls
    /\ calls' = calls + 1
    /\ u # user
    /\ user' = u
    /\ effectPending' = TRUE
    /\ last' = Did("identityChange", "", "", u.id, u.role)
    /\ UNCHANGED <<authLoading, registrations, loading, db, tasks, now>>

\* The body of fetchRegistrations up to its first await, run by a closure that
\* captured (uid, role, auth).  `suspended` is the bag of tasks if the call
\* awaits getDocs, `returned` the bag of tasks if it returns at once.
FetchRegistrations(uid, role, auth, suspended, returned) ==
    IF auth
    THEN /\ tasks' = returned
         /\ UNCHANGED <<registrations, loading>>
    ELSE IF role \in {"organizer", "student"}
    THEN /\ loading' = TRUE
         /\ tasks' = suspended
         /\ UNCHANGED registrations
    ELSE /\ registrations' = <<>>
         /\ loading' = FALSE
         /\ tasks' = returned

\* Whether that call awaits getDocs
Suspends(role, auth) == ~auth /\ role \in {"organizer", "student"}

\* useEffect(() => { if (!authLoading) fetchRegistrations() }, [id, role, authLoading])
Effect ==
    /\ effectPending
    /\ effectPending' = FALSE
    /\ IF authLoading
       THEN UNCHANGED <<registrations, loading, tasks>>
       ELSE FetchRegistrations(user.id, user.role, authLoading,
                Add(tasks, Task("fetch", "getDocs", user.id, user.role, authLoading, "", "", 0)),
                tasks)
    /\ last' = Did(IF authLoading THEN "effectIdle"
                   ELSE IF Suspends(user.role, authLoading) THEN "fetchCall" ELSE "fetchSkip",
                   "fetch", "", user.id, user.role)
    /\ UNCHANGED <<user, authLoading, db, now, calls>>

\* Mutant of LoggedIn: the guard is missing
LoggedInAlways(u) == TRUE

\* if (!user) { console.error(...); return; }
LoggedIn(u) == u # NoUser

\* Mutant of AlreadyRegistered: the fast path is missing
AlreadyRegisteredNever(regs, rid) == FALSE

\* registrations.some(reg => reg.id === registrationId)
AlreadyRegistered(regs, rid) == \E i \in 1..Len(regs) : regs[i].id = rid

\* registerForEvent(eventId) up to its first await
RegisterForEvent(eventId) ==
    /\ ~effectPending
    /\ calls < MaxCalls
    /\ calls' = calls + 1
    /\ LET rid == RegistrationId(user.id, eventId) IN
       \/ /\ ~LoggedIn(user)
          /\ last' = Did("registerUnauth", "register", "", "none", "none")
          /\ UNCHANGED <<tasks, now>>
       \/ /\ LoggedIn(user)
          /\ AlreadyRegistered(registrations, rid)
          /\ last' = Did("registerDup", "register", rid, user.id, user.role)
          /\ UNCHANGED <<tasks, now>>
       \/ /\ LoggedIn(user)
          /\ ~AlreadyRegistered(registrations, rid)
          /\ \E t \in Clock :
                /\ now' = t
                /\ tasks' = Add(tasks, Task("register", "setDoc", user.id, user.role,
                                            authLoading, eventId, rid, t))
          /\ last' = Did("registerCall", "register", rid, user.id, user.role)
    /\ UNCHANGED <<user, authLoading, effectPending, registrations, loading, db>>

\* markAttendance(registrationId) up to its first await
MarkAttendance(rid) ==
    /\ ~effectPending
    /\ calls < MaxCalls
    /\ calls' = calls + 1
    /\ \E t \in Clock :
          /\ now' = t
          /\ tasks' = Add(tasks, Task("mark", "updateDoc", user.id, user.role,
                                      authLoading, "", rid, t))
    /\ last' = Did("markCall", "mark", rid, user.id, user.role)
    /\ UNCHANGED <<user, authLoading, effectPending, registrations, loading, db>>

\* The database serves a setDoc
DbPut(t) ==
    /\ ~effectPending
    /\ t.pc = "setDoc"
    /\ db' = SetDoc(db, t.rid, NewRegistration(t.uid, t.eventId, t.at))
    /\ tasks' = Replace(tasks, t, [t EXCEPT !.pc = "putOk"])
    /\ last' = DidTask("put", t)
    /\ UNCHANGED <<user, authLoading, effectPending, registrations, loading, now, calls>>

\* The database serves an updateDoc of an existing document
DbPatch(t) ==
    /\ ~effectPending
    /\ t.pc = "updateDoc"
    /\ t.rid \in DOMAIN db
    /\ db' = UpdateDoc(db, t.rid, t.at)
    /\ tasks' = Replace(tasks, t, [t EXCEPT !.pc = "patchOk"])
    /\ last' = DidTask("patch", t)
    /\ UNCHANGED <<user, authLoading, effectPending, registrations, loading, now, calls>>

\* The database serves a getDocs
DbRead(t) ==
    /\ ~effectPending
    /\ t.pc = "getDocs"
    /\ tasks' = Replace(tasks, t, [t EXCEPT !.pc = "readOk",
                                            !.snap = GetDocs(db, t.uid, t.role)])
    /\ last' = DidTask("read", t)
    /\ UNCHANGED <<user, authLoading, effectPending, registrations, loading, db, now, calls>>

\* Mutant of ResumeRegister: the refetch is made in the catch block too
ResumeRegisterRefetching(t) ==
    /\ ~effectPending
    /\ t.pc \in {"putOk", "setDoc"}
    /\ FetchRegistrations(t.uid, t.role, t.auth,
          Replace(tasks, t, [t EXCEPT !.pc = "getDocs"]), Remove(tasks, t))
    /\ last' = DidTask(IF t.pc = "setDoc" THEN "writeFailed"
                       ELSE IF Suspends(t.role, t.auth) THEN "fetchCall" ELSE "fetchSkip", t)
    /\ UNCHANGED <<user, authLoading, effectPending, db, now, calls>>

\* registerForEvent resumes after await setDoc: in the try block when the
\* write was made, in the catch block when setDoc rejects
ResumeRegister(t) ==
    /\ ~effectPending
    /\ \/ /\ t.pc = "putOk"
          /\ FetchRegistrations(t.uid, t.role, t.auth,
                Replace(tasks, t, [t EXCEPT !.pc = "getDocs"]), Remove(tasks, t))
          /\ last' = DidTask(IF Suspends(t.role, t.auth) THEN "fetchCall" ELSE "fetchSkip", t)
       \/ /\ t.pc = "setDoc"
          /\ tasks' = Remove(tasks, t)
          /\ last' = DidTask("writeFailed", t)
          /\ UNCHANGED <<registrations, loading>>
    /\ UNCHANGED <<user, authLoading, effectPending, db, now, calls>>

RECURSIVE MapCheckedIn(_, _, _)
\* prev.map(reg => reg.id === registrationId ? {...reg, checkedIn: true, checkedInAt} : reg)
MapCheckedIn(prev, rid, t) ==
    IF prev = <<>> THEN <<>>
    ELSE <<IF Head(prev).id = rid THEN CheckedIn(Head(prev), t) ELSE Head(prev)>>
         \o MapCheckedIn(Tail(prev), rid, t)

\* Mutant of ResumeMark: the organizer's refetch is missing
ResumeMarkLocalOnly(t) ==
    /\ ~effectPending
    /\ \/ /\ t.pc = "patchOk"
          /\ registrations' = MapCheckedIn(registrations, t.rid, t.at)
          /\ last' = DidTask("localPatch", t)
       \/ /\ t.pc = "updateDoc"
          /\ last' = DidTask("writeFailed", t)
          /\ UNCHANGED registrations
    /\ tasks' = Remove(tasks, t)
    /\ UNCHANGED <<user, authLoading, effectPending, loading, db, now, calls>>

\* Mutant of ResumeMark: every role refetches after the write
ResumeMarkAlwaysRefetch(t) ==
    /\ ~effectPending
    /\ \/ /\ t.pc = "patchOk"
          /\ FetchRegistrations(t.uid, t.role, t.auth,
                Replace(tasks, t, [t EXCEPT !.pc = "getDocs"]), Remove(tasks, t))
          /\ last' = DidTask(IF Suspends(t.role, t.auth) THEN "fetchCall" ELSE "fetchSkip", t)
       \/ /\ t.pc = "updateDoc"
          /\ tasks' = Remove(tasks, t)
          /\ last' = DidTask("writeFailed", t)
          /\ UNCHANGED <<registrations, loading>>
    /\ UNCHANGED <<user, authLoading, effectPending, db, now, calls>>

\* markAttendance resumes after await updateDoc: in the try block when the
\* write was made, in the catch block when updateDoc rejects
ResumeMark(t) ==
    /\ ~effectPending
    /\ \/ /\ t.pc = "patchOk"
          /\ t.role = "organizer"
          /\ FetchRegistrations(t.uid, t.role, t.auth,
                Replace(tasks, t, [t EXCEPT !.pc = "getDocs"]), Remove(tasks, t))
          /\ last' = DidTask(IF Suspends(t.role, t.auth) THEN "fetchCall" ELSE "fetchSkip", t)
       \/ /\ t.pc = "patchOk"
          /\ t.role # "organizer"
          /\ registrations' = MapCheckedIn(registrations, t.rid, t.at)
          /\ tasks' = Remove(tasks, t)
          /\ last' = DidTask("localPatch", t)
          /\ UNCHANGED loading
       \/ /\ t.pc = "updateDoc"
          /\ tasks' = Remove(tasks, t)
          /\ last' = DidTask("writeFailed", t)
          /\ UNCHANGED <<registrations, loading>>
    /\ UNCHANGED <<user, authLoading, effectPending, db, now, calls>>

\* Mutant of ResumeFetch: the catch block clears the working set
ResumeFetchClearing(t) ==
    /\ ~effectPending
    /\ \/ /\ t.pc = "readOk"
          /\ registrations' = t.snap
          /\ last' = DidTask("fetched", t)
       \/ /\ t.pc = "getDocs"
          /\ last' = DidTask("fetchFailed", t)
          /\ registrations' = <<>>
    /\ loading' = FALSE
    /\ tasks' = Remove(tasks, t)
    /\ UNCHANGED <<user, authLoading, effectPending, db, now, calls>>

\* Mutant of ResumeFetch: setLoading(false) is in the try block, not in finally
ResumeFetchNoFinally(t) ==
    /\ ~effectPending
    /\ \/ /\ t.pc = "readOk"
          /\ registrations' = t.snap
          /\ loading' = FALSE
          /\ last' = DidTask("fetched", t)
       \/ /\ t.pc = "getDocs"
          /\ last' = DidTask("fetchFailed", t)
          /\ UNCHANGED <<registrations, loading>>
    /\ tasks' = Remove(tasks, t)
    /\ UNCHANGED <<user, authLoading, effectPending, db, now, calls>>

\* fetchRegistrations resumes after await getDocs (try block, or catch block
\* when getDocs rejects), runs its finally block, and its caller returns
ResumeFetch(t) ==
    /\ ~effectPending
    /\ \/ /\ t.pc = "readOk"
          /\ registrations' = t.snap
          /\ last' = DidTask("fetched", t)
       \/ /\ t.pc = "getDocs"
          /\ last' = DidTask("fetchFailed", t)
          /\ UNCHANGED registrations
    /\ loading' = FALSE
    /\ tasks' = Remove(tasks, t)
    /\ UNCHANGED <<user, authLoading, effectPending, db, now, calls>>

Next ==
    \/ \E u \in Identities \cup {NoUser} : AuthResolve(u)
    \/ \E u \in Identities \cup {NoUser} : IdentityChange(u)
    \/ Effect
    \/ \E e \in EventIds : RegisterForEvent(e)
    \/ \E rid \in DocIds : MarkAttendance(rid)
    \/ \E t \in InFlight : DbPut(t)
    \/ \E t \in InFlight : DbPatch(t)
    \/ \E t \in InFlight : DbRead(t)
    \/ \E t \in InFlight : ResumeRegister(t)
    \/ \E t \in InFlight : ResumeMark(t)
    \/ \E t \in InFlight : ResumeFetch(t)

Spec == Init /\ [][Next]_vars

\* A step of a call in flight: the database serves it, or it resumes
TaskStep ==
    \E t \in InFlight :
        \/ DbPut(t) \/ DbPatch(t) \/ DbRead(t)
        \/ ResumeRegister(t) \/ ResumeMark(t) \/ ResumeFetch(t)

\* useAuth resolves, a scheduled effect runs, and every database call that
\* was issued resolves (or rejects) and its caller resumes.
Fairness ==
    /\ WF_vars(\E u \in Identities \cup {NoUser} : AuthResolve(u))
    /\ WF_vars(Effect)
    /\ WF_vars(TaskStep)

FairSpec == Spec /\ Fairness

\* The provider mounts over a collection that already holds a registration,
\* written by registerForEvent in an earlier session.
InitSeeded ==
    /\ user = NoUser
    /\ authLoading = TRUE
    /\ effectPending = TRUE
    /\ registrations = <<>>
    /\ loading = TRUE
    /\ db = [k \in {RegistrationId("u1", "e1")} |-> NewRegistration("u1", "e1", 1)]
    /\ tasks = EmptyBag
    /\ now = 1
    /\ calls = 0
    /\ last = Did("init", "", "", "none", "none")

SeededSpec == InitSeeded /\ [][Next]_vars

\* The provider mounts over a collection that holds the registration of user
\* "a" for event "b-c", and serves users and events whose identifiers
\* contain the separator.
InitDash ==
    /\ user = NoUser
    /\ authLoading = TRUE
    /\ effectPending = TRUE
    /\ registrations = <<>>
    /\ loading = TRUE
    /\ db = [k \in {RegistrationId("a", "b-c")} |-> NewRegistration("a", "b-c", 1)]
    /\ tasks = EmptyBag
    /\ now = 1
    /\ calls = 0
    /\ last = Did("init", "", "", "none", "none")

NextDash ==
    \/ \E u \in DashIdentities \cup {NoUser} : AuthResolve(u)
    \/ \E u \in DashIdentities \cup {NoUser} : IdentityChange(u)
    \/ Effect
    \/ \E e \in DashEventIds : RegisterForEvent(e)
    \/ \E rid \in DashDocIds : MarkAttendance(rid)
    \/ \E t \in InFlight : DbPut(t)
    \/ \E t \in InFlight : DbPatch(t)
    \/ \E t \in InFlight : DbRead(t)
    \/ \E t \in InFlight : ResumeRegister(t)
    \/ \E t \in InFlight : ResumeMark(t)
    \/ \E t \in InFlight : ResumeFetch(t)

DashSpec == InitDash /\ [][NextDash]_vars

\* The steps of a session in which the identity, once resolved, stays the
\* same and no database call fails
NextConverge ==
    \/ \E u \in Identities \cup {NoUser} : AuthResolve(u)
    \/ Effect
    \/ \E e \in EventIds : RegisterForEvent(e)
    \/ \E rid \in DocIds : MarkAttendance(rid)
    \/ \E t \in InFlight : DbPut(t)
    \/ \E t \in InFlight : DbPatch(t)
    \/ \E t \in InFlight : DbRead(t)
    \/ \E t \in InFlight : t.pc = "putOk" /\ ResumeRegister(t)
    \/ \E t \in InFlight : t.pc = "patchOk" /\ ResumeMark(t)
    \/ \E t \in InFlight : t.pc = "readOk" /\ ResumeFetch(t)

ConvergeSpec == Init /\ [][NextConverge]_vars

-----------------------------------------------------------------------------
(* Properties *)

\* The labels of the steps that are a call of registerForEvent
RegisterCalls == {"registerUnauth", "registerDup", "registerCall"}

\* Where the working set holds a record with this id
LocalCopies(rid) == {i \in 1..Len(registrations) : registrations[i].id = rid}

\* The documents of the database that register this user for this event
DbRecordsOf(uid, eventId) ==
    {k \in DOMAIN db : db[k].userId = uid /\ db[k].eventId = eventId}

\* The event a registration id of this user stands for
EventsOf(uid, rid) == {e \in EventIds : RegistrationId(uid, e) = rid}

C1_OneRecord ==
    /\ \A k \in DOMAIN db :
          /\ k = RegistrationId(db[k].userId, db[k].eventId)
          /\ Cardinality(DbRecordsOf(db[k].userId, db[k].eventId)) = 1
    /\ \A rid \in DocIds : Cardinality(LocalCopies(rid)) <= 1
    /\ last.act = "put" => last.rid \in DOMAIN db

C1_FastPath ==
    (/\ last'.op = "register"
     /\ last'.act \in RegisterCalls
     /\ user # NoUser
     /\ LocalCopies(last'.rid) # {})
    => UNCHANGED <<db, tasks>>

\* C1: registerForEvent is idempotent.  However often and however overlapped
\* it is called for a user and an event, the database holds at most one
\* record for the pair, under the id "U-E", and exactly that one once a write
\* has landed; the working set holds at most one record per id; and a call
\* made while the working set already holds the id issues no database write.
C1_Idempotent == [][C1_OneRecord' /\ C1_FastPath]_vars

\* A second call, made in sequence, found the record of the first one.
C1_Witness ==
    /\ last.act = "registerDup"
    /\ last.rid \in DOMAIN db
    /\ LocalCopies(last.rid) # {}

\* A registerForEvent of student U, whose write was made, has just returned
\* and U is still the identity.
C2_Returned(acts) ==
    /\ last.op = "register"
    /\ last.act \in acts
    /\ last.role = "student"
    /\ user = [id |-> last.uid, role |-> "student"]

\* C2 as stated: once a registerForEvent(E) of student U whose write
\* succeeded has completed, userRegistrations holds {id: "U-E", userId: U,
\* eventId: E, checkedIn: false} and isUserRegistered(E) is true.
C2_Original ==
    C2_Returned({"fetched", "fetchFailed"}) =>
        \E i \in 1..Len(userRegistrations) :
            LET r == userRegistrations[i] IN
            /\ r.id = last.rid
            /\ r.userId = last.uid
            /\ r.eventId \in EventsOf(last.uid, last.rid)
            /\ r.checkedIn = FALSE
            /\ isUserRegistered(r.eventId)

\* C2 amended: once a registerForEvent(E) of student U whose write succeeded
\* and whose refresh read succeeded has completed, and U is still the
\* identity, userRegistrations holds a record with id "U-E", userId U and
\* eventId E, and isUserRegistered(E) is true; the record has checkedIn false
\* and no checkedInAt when no other call was made, and otherwise may already
\* be checked in (checkedIn true with a checkedInAt).
C2_Registered ==
    C2_Returned({"fetched"}) =>
        \E i \in 1..Len(userRegistrations) :
            LET r == userRegistrations[i] IN
            /\ r.id = last.rid
            /\ r.userId = last.uid
            /\ r.eventId \in EventsOf(last.uid, last.rid)
            /\ calls = 1 => (r.checkedIn = FALSE /\ r.checkedInAt = Absent)
            /\ r.checkedIn => r.checkedInAt # Absent
            /\ isUserRegistered(r.eventId)

\* Scenario A: the single call registerForEvent has returned after its refresh.
C2_Witness == C2_Returned({"fetched"}) /\ calls = 1

\* C3: for a student, every record of userRegistrations is a record of
\* registrations and has the student's userId; isUserRegistered(E) is true
\* exactly when userRegistrations holds a record of event E, and false when
\* there is no identity.
C3_UserView ==
    /\ user.role = "student" =>
          \A i \in 1..Len(userRegistrations) :
              /\ userRegistrations[i].userId = user.id
              /\ \E j \in 1..Len(registrations) : registrations[j] = userRegistrations[i]
    /\ \A e \in EventIds :
          isUserRegistered(e) <=>
              \E i \in 1..Len(userRegistrations) : userRegistrations[i].eventId = e
    /\ user = NoUser => \A e \in EventIds : ~isUserRegistered(e)

\* A student sees an own registration.
C3_Witness ==
    /\ user.role = "student"
    /\ Len(userRegistrations) > 0
    /\ \E e \in EventIds : isUserRegistered(e)

\* C4: allRegistrations is the working set for an organizer and empty for
\* every other role and for no identity.
C4_AllView ==
    /\ user.role = "organizer" => allRegistrations = registrations
    /\ user.role # "organizer" => allRegistrations = <<>>

\* An organizer sees a non-empty working set.
C4_Witness == user.role = "organizer" /\ allRegistrations # <<>>

\* C5: with no identity, or a role other than organizer and student, both
\* views are empty.
C5_NothingForOthers ==
    (user = NoUser \/ user.role \notin {"organizer", "student"}) =>
        (userRegistrations = <<>> /\ allRegistrations = <<>>)

WellFormed(r) == (r.checkedIn = FALSE) <=> (r.checkedInAt = Absent)

\* C6: every record of the database and of the working set has checkedIn
\* false exactly when it has no checkedInAt.
C6_CheckedInAt ==
    /\ \A k \in DOMAIN db : WellFormed(db[k])
    /\ \A i \in 1..Len(registrations) : WellFormed(registrations[i])

\* A record was checked in and patched locally.
C6_Witness ==
    /\ last.act = "localPatch"
    /\ \E i \in 1..Len(registrations) :
          registrations[i].id = last.rid /\ registrations[i].checkedIn
    /\ db[last.rid].checkedIn

\* C7: registerForEvent called with no identity writes nothing, fetches
\* nothing and leaves registrations and loading as they are.
C7_Unauthenticated ==
    [][ (last'.op = "register" /\ last'.act \in RegisterCalls /\ user = NoUser)
        => UNCHANGED <<db, tasks, registrations, loading>> ]_vars

\* registerForEvent was called with no identity.
C7_Witness == last.act = "registerUnauth" /\ user = NoUser

\* C8: when the read of a refresh fails, the refresh leaves registrations as
\* it was (neither its start nor its catch block assigns it) and ends with
\* loading false.
C8_ReadFailure ==
    [][ /\ last'.act = "fetchCall" => registrations' = registrations
        /\ last'.act = "fetchFailed"
           => (registrations' = registrations /\ loading' = FALSE) ]_vars

\* A refresh failed while the working set held records.
C8_Witness == last.act = "fetchFailed" /\ registrations # <<>> /\ ~loading

\* C9: when the write of registerForEvent or markAttendance fails, the call
\* returns (the model has no other way for a call to end: every await is
\* inside a try block), no refresh is issued, and neither the call up to its
\* write nor its catch block changes registrations.
C9_WriteFailure ==
    [][ /\ last'.act \in {"registerCall", "markCall"}
           => (registrations' = registrations /\ loading' = loading /\ db' = db)
        /\ last'.act = "writeFailed"
           => /\ registrations' = registrations
              /\ loading' = loading
              /\ db' = db
              /\ \E t \in InFlight :
                    /\ t.pc \in {"setDoc", "updateDoc"}
                    /\ tasks' = Remove(tasks, t) ]_vars

\* A markAttendance failed for a record the working set holds un-checked-in.
C9_Witness ==
    /\ last.act = "writeFailed"
    /\ last.op = "mark"
    /\ \E i \in 1..Len(registrations) :
          registrations[i].id = last.rid /\ ~registrations[i].checkedIn

\* A markAttendance of an organizer, for a record that exists, has just
\* returned and the identity is still an organizer.
C10_Returned(acts) ==
    /\ last.op = "mark"
    /\ last.act \in acts
    /\ last.role = "organizer"
    /\ user.role = "organizer"
    /\ last.rid \in DOMAIN db

\* C10 as stated: after markAttendance(R) of an organizer for an existing
\* record (one the working set shows), the database record has checkedIn
\* true and a checkedInAt, and allRegistrations holds R with checkedIn true.
C10_Original ==
    (C10_Returned({"fetched", "fetchFailed", "writeFailed"}) /\ LocalCopies(last.rid) # {}) =>
        /\ db[last.rid].checkedIn
        /\ db[last.rid].checkedInAt # Absent
        /\ \E i \in 1..Len(allRegistrations) :
              allRegistrations[i].id = last.rid /\ allRegistrations[i].checkedIn

\* C10 amended: when the write of an organizer's markAttendance(R) is made,
\* the database record R has checkedIn true and a checkedInAt, and the call
\* goes on to a full refresh (never to the local patch); when the read of
\* that refresh succeeds and the identity is still an organizer as the call
\* returns, allRegistrations holds R, with checkedIn true and a checkedInAt
\* unless a registerForEvent write for R landed between the write and the
\* read, in which case R shows as newly registered.
C10_OrganizerCheckIn ==
    /\ (last.act = "patch" /\ last.role = "organizer") =>
          (db[last.rid].checkedIn /\ db[last.rid].checkedInAt # Absent)
    /\ (last.op = "mark" /\ last.role = "organizer") =>
          /\ last.act \notin {"localPatch", "fetchSkip"}
          /\ last.act = "fetchCall" =>
                /\ loading
                /\ \E t \in InFlight :
                      /\ t.op = "mark" /\ t.pc = "getDocs"
                      /\ t.rid = last.rid /\ t.role = "organizer"
    /\ C10_Returned({"fetched"}) =>
          \E i \in 1..Len(allRegistrations) :
              LET r == allRegistrations[i] IN
              /\ r.id = last.rid
              /\ \/ r.checkedIn /\ r.checkedInAt # Absent
                 \/ r = NewRegistration(r.userId, r.eventId, r.registrationDate)

\* Scenario C: the organizer's markAttendance has returned after its refresh
\* and the record shows checked in.
C10_Witness ==
    /\ C10_Returned({"fetched"})
    /\ \E i \in 1..Len(allRegistrations) :
          allRegistrations[i].id = last.rid /\ allRegistrations[i].checkedIn

\* C11: when the role is not organizer and the write of markAttendance(R) is
\* made, the call issues no refresh: it writes its timestamp to the database
\* record, and then gives the record with id R of the working set (if any)
\* checkedIn true and that same timestamp, leaving every other record, the
\* order and membership of the working set, loading and the database alone.
C11_LocalPatch ==
    [][ /\ (last'.op = "mark" /\ last'.role # "organizer") =>
              /\ last'.act \in {"markCall", "patch", "localPatch", "writeFailed"}
              /\ \A t \in BagToSet(tasks') :
                    (t.op = "mark" /\ t.role # "organizer")
                        => t.pc \in {"updateDoc", "patchOk"}
        /\ (last'.act = "patch" /\ last'.role # "organizer") =>
              \E t \in InFlight :
                  /\ t.pc = "updateDoc" /\ t.rid = last'.rid
                  /\ tasks' = Replace(tasks, t, [t EXCEPT !.pc = "patchOk"])
                  /\ db'[t.rid].checkedIn
                  /\ db'[t.rid].checkedInAt = t.at
        /\ last'.act = "localPatch" =>
              \E t \in InFlight :
                  /\ t.pc = "patchOk" /\ t.rid = last'.rid /\ t.role # "organizer"
                  /\ tasks' = Remove(tasks, t)
                  /\ UNCHANGED <<loading, db>>
                  /\ Len(registrations') = Len(registrations)
                  /\ \A i \in 1..Len(registrations) :
                        registrations'[i] =
                            IF registrations[i].id = t.rid
                            THEN [registrations[i] EXCEPT !.checkedIn = TRUE,
                                                          !.checkedInAt = t.at]
                            ELSE registrations[i] ]_vars

\* Scenario B: a student's markAttendance has returned; the working set shows
\* the record checked in with the timestamp of the database, and nothing is
\* in flight.
C11_Witness ==
    /\ last.act = "localPatch"
    /\ last.role = "student"
    /\ tasks = EmptyBag
    /\ ~loading
    /\ \E i \in 1..Len(registrations) :
          /\ registrations[i].id = last.rid
          /\ registrations[i].checkedIn
          /\ registrations[i].checkedInAt = db[last.rid].checkedInAt

\* A fetch is in flight: fetchRegistrations awaits getDocs
Fetching == {t \in InFlight : t.pc \in {"getDocs", "readOk"}}

\* C12: loading is true in every state in which a fetch is in flight, also
\* when fetches overlap.
C12_LoadingWhileFetching == Fetching # {} => loading

\* C13: loading never sticks at true.  When identity resolution completes and
\* every database call that was issued resolves, loading is false again and
\* again (from every reachable state a state with loading false is reached);
\* and every fetchRegistrations that went past its guard ends with loading
\* false, when its read succeeds, when it fails, and on the path that skips
\* the read.
C13_LoadingSettles ==
    /\ []<>(~loading)
    /\ [][ last'.act \in {"fetched", "fetchFailed", "fetchSkip"} => loading' = FALSE ]_vars

\* The read of the only fetch in flight failed, and loading is false.
C13_Witness ==
    /\ last.act = "fetchFailed"
    /\ tasks = EmptyBag
    /\ ~loading
    /\ ~authLoading

\* C14: in the database, checkedIn of a record never goes from true back to
\* false, whatever calls are made and however they interleave.
C14_CheckedInMonotone ==
    [][ \A k \in DOMAIN db : db[k].checkedIn => db'[k].checkedIn ]_vars

\* C15: once a record is in the database its userId, eventId and
\* registrationDate never change.
C15_Immutable ==
    [][ \A k \in DOMAIN db :
            /\ db'[k].userId = db[k].userId
            /\ db'[k].eventId = db[k].eventId
            /\ db'[k].registrationDate = db[k].registrationDate ]_vars

\* C16: checkedInAt is written only as checkedIn goes from false to true: a
\* record that is checked in keeps its checkedInAt, in the database and in
\* the working set, when markAttendance is called for it again.
C16_CheckedInAtOnce ==
    [][ /\ \A k \in DOMAIN db :
              (db[k].checkedIn /\ db'[k].checkedIn)
                  => db'[k].checkedInAt = db[k].checkedInAt
        /\ last'.act = "localPatch" =>
              \A i \in 1..Len(registrations) :
                  registrations[i].checkedIn
                      => registrations'[i].checkedInAt = registrations[i].checkedInAt ]_vars

\* C17: the id "{userId}-{eventId}" determines the pair (userId, eventId),
\* also for identifiers that contain "-": a registerForEvent of one pair
\* never overwrites the database record of another pair, and is never
\* suppressed by the record of another pair in the working set.
C17_IdDeterminesPair ==
    [][ /\ \A k \in DOMAIN db :
              /\ db'[k].userId = db[k].userId
              /\ db'[k].eventId = db[k].eventId
        /\ last'.act = "registerDup" =>
              \A i \in 1..Len(registrations) :
                  registrations[i].id = last'.rid
                      => registrations[i].userId = last'.uid ]_vars

\* The dependency list of the effect and of fetchRegistrations
Deps == <<user.id, user.role, authLoading>>

\* How many calls of fetchRegistrations made by the effect are in flight
AutoFetchCount(bag) ==
    BagCardinality([t \in {x \in BagToSet(bag) : x.op = "fetch"} |-> bag[t]])

\* C18: the automatic fetch is keyed on (user id, role, resolved).  While
\* identity resolution is pending no fetch is issued and registrations and
\* loading do not change; the effect is scheduled exactly by the steps that
\* change the key (resolution completing, a change of id or role), and each
\* time it runs once, calling fetchRegistrations once for the current
\* identity; no other step issues an automatic fetch.
C18_AutoFetch ==
    [][ /\ authLoading =>
              /\ UNCHANGED <<registrations, loading>>
              /\ \A t \in BagToSet(tasks') : t.pc \notin {"getDocs", "readOk"}
        /\ (Deps' # Deps) <=> (effectPending' /\ ~effectPending)
        /\ (effectPending /\ ~effectPending') =>
              /\ last'.op = "fetch"
              /\ IF authLoading
                 THEN UNCHANGED <<registrations, loading, tasks>>
                 ELSE IF user.role \in {"organizer", "student"}
                 THEN /\ tasks' = Add(tasks, Task("fetch", "getDocs", user.id, user.role,
                                                  FALSE, "", "", 0))
                      /\ loading'
                      /\ UNCHANGED registrations
                 ELSE /\ UNCHANGED tasks
                      /\ registrations' = <<>>
                      /\ ~loading'
        /\ AutoFetchCount(tasks') > AutoFetchCount(tasks) =>
              /\ effectPending /\ ~effectPending'
              /\ AutoFetchCount(tasks') = AutoFetchCount(tasks) + 1
        /\ (last'.op = "fetch" /\ last'.act \in {"fetchCall", "fetchSkip", "effectIdle"}) =>
              (effectPending /\ ~effectPending') ]_vars

\* The identity changed while the fetch of the earlier identity was in
\* flight, and the effect has issued one fetch for the new identity.
C18_Witness ==
    /\ last.op = "fetch"
    /\ last.act = "fetchCall"
    /\ AutoFetchCount(tasks) = 2
    /\ \E t \in InFlight : t.op = "fetch" /\ <<t.uid, t.role>> # <<user.id, user.role>>
    /\ Cardinality({t \in InFlight : t.op = "fetch" /\ t.pc = "getDocs"
                                     /\ t.uid = user.id /\ t.role = user.role}) = 1

\* C19: whenever the identity is a student, every record of registrations
\* has the student's userId, also when the identity changed while a fetch
\* that captured the earlier identity was in flight.
C19_StudentScoped ==
    user.role = "student" =>
        \A i \in 1..Len(registrations) : registrations[i].userId = user.id

\* Nothing is in flight and nothing is scheduled
Quiescent == ~authLoading /\ ~effectPending /\ tasks = EmptyBag

\* C20: for a fixed identity, once overlapping calls whose database calls
\* all succeeded have completed and nothing is in flight, registrations is
\* the role-scoped content of the database.
C20_Converged ==
    Quiescent => registrations = GetDocs(db, user.id, user.role)
====
